---------------------------- MODULE Spec2Model ----------------------------
(***************************************************************************)
(* A model of demo_analysis.py: the extraction of a camera track from a    *)
(* parsed GoldSrc demo, its resampling to a target frame rate and its      *)
(* serialisation as a BVH motion block.                                    *)
(*                                                                         *)
(* Numbers.  The program computes in IEEE doubles.  The model computes in  *)
(* exact rationals, a value being a pair <<num, den>> in lowest terms with *)
(* den > 0, so that equality of values is equality of pairs.  Rounding     *)
(* error of the doubles is therefore not modelled.                         *)
(*                                                                         *)
(* Control.  main() runs sequentially; pc is its position.  The module can *)
(* also be imported and resample_positions called directly; that entry is  *)
(* the action Call_resample_positions.  The asynchronous KeyboardInterrupt *)
(* is not modelled.                                                        *)
(***************************************************************************)
EXTENDS Integers, Sequences, FiniteSets, TLC

----------------------------------------------------------------------------
(* Bounds of the model *)

\* the most frame records (macros) of a Playback directory
MaxMacros == 3

\* the most poses of a track handed to resample_positions directly
MaxTrack == 5

----------------------------------------------------------------------------
(* Exact rational arithmetic standing for the float arithmetic of the code *)

Abs(n) == IF n < 0 THEN -n ELSE n

RECURSIVE GCD(_, _)
GCD(a, b) == IF b = 0 THEN a ELSE GCD(b, a % b)

\* the rational n/d (d # 0) in lowest terms with a positive denominator
Norm(n, d) ==
    LET s == IF d < 0 THEN -1 ELSE 1
        g == GCD(Abs(n), Abs(d))
    IN  <<(s * n) \div g, (s * d) \div g>>

Rat(n) == <<n, 1>>

RAdd(a, b) == Norm(a[1] * b[2] + b[1] * a[2], a[2] * b[2])
RSub(a, b) == Norm(a[1] * b[2] - b[1] * a[2], a[2] * b[2])
\* a * b, the common factors taken out before the products are formed
RMul(a, b) ==
    LET g == GCD(Abs(a[1]), b[2])
        h == GCD(Abs(b[1]), a[2])
    IN  Norm((a[1] \div g) * (b[1] \div h), (a[2] \div h) * (b[2] \div g))
\* a / b, defined for b # 0 (the callers raise ZeroDivisionError first)
RDiv(a, b) == RMul(a, Norm(b[2], b[1]))
RLess(a, b) == a[1] * b[2] < b[1] * a[2]
RLeq(a, b) == a[1] * b[2] <= b[1] * a[2]
RAbs(a) == <<Abs(a[1]), a[2]>>
RFloor(a) == a[1] \div a[2]
RCeil(a) == -((-a[1]) \div a[2])
\* Python's and numpy's a % m for a positive integer m: the result is in [0, m)
RMod(a, m) == Norm(a[1] % (m * a[2]), a[2])

----------------------------------------------------------------------------
(* Sequences *)

SeqsUpTo(S, n) == UNION {[1..k -> S] : k \in 0..n}

\* the column c of a track: pos_array[:, c]
Column(track, c) == [k \in 1..Len(track) |-> track[k][c]]


----------------------------------------------------------------------------
(* The inputs the model draws from *)

\* frame records that expose client_data.position and client_data.rotation
FullMacros ==
    { [client_data |-> [position |-> [x |-> 0, y |-> 0, z |-> 0],
                        rotation |-> [roll |-> -350, pitch |-> 0, yaw |-> 10]]],
      [client_data |-> [position |-> [x |-> 1, y |-> 2, z |-> 3],
                        rotation |-> [roll |-> -10, pitch |-> 90, yaw |-> 350]]],
      [client_data |-> [position |-> [x |-> -4, y |-> 6, z |-> -20],
                        rotation |-> [roll |-> -200, pitch |-> -180, yaw |-> 190]]] }

\* frame records that lack some of that data
PartialMacros ==
    { [frame |-> 0],
      [client_data |-> [position |-> [x |-> 5, y |-> 5, z |-> 5]]],
      [client_data |-> [rotation |-> [roll |-> 0, pitch |-> 0, yaw |-> 0]]] }

MacroSet == FullMacros \cup PartialMacros

\* (frames, time) of a Playback directory: no frames, 30 fps, 45 fps, and
\* frames recorded in no time
FramesTimeSet == {<<0, 0>>, <<60, 2>>, <<90, 2>>, <<3, 0>>}

PlaybackDirs ==
    { [name |-> "Playback", frames |-> ft[1], time |-> ft[2], macros |-> ms] :
        ft \in FramesTimeSet, ms \in SeqsUpTo(MacroSet, MaxMacros) }

\* the directory a demo holds before its Playback directory
LoadingDir ==
    [name |-> "LOADING", frames |-> 1, time |-> 1,
     macros |-> <<[client_data |-> [position |-> [x |-> 9, y |-> 9, z |-> 9],
                                    rotation |-> [roll |-> 9, pitch |-> 9, yaw |-> 9]]]>>]

DemoSet == {<<p>> : p \in PlaybackDirs} \cup {<<LoadingDir, p>> : p \in PlaybackDirs}

\* values of -fps (positive frame rates only)
TargetFpsSet == {30, 60}

----------------------------------------------------------------------------
(* analyze_demo: the pose of a frame record *)

\* whether reading macro.client_data.position and .rotation succeeds
Exposes(macro) ==
    /\ "position" \in DOMAIN macro.client_data
    /\ "rotation" \in DOMAIN macro.client_data

\* (-pos.y, pos.z + 16, -pos.x, -rot.roll, -rot.pitch, rot.yaw)
PoseOf(macro) ==
    LET pos == macro.client_data.position
        rot == macro.client_data.rotation
    IN  <<Rat(-pos.y), Rat(pos.z + 16), Rat(-pos.x),
          Rat(-rot.roll), Rat(-rot.pitch), Rat(rot.yaw)>>

\* ExtractMacro with a pose appended as soon as the position was read
ExtractMacro_KeepsPartial(track, macro) ==
    IF "client_data" \in DOMAIN macro /\ "position" \in DOMAIN macro.client_data
    THEN LET pos == macro.client_data.position
         IN  Append(track, IF Exposes(macro) THEN PoseOf(macro)
                           ELSE <<Rat(-pos.y), Rat(pos.z + 16), Rat(-pos.x),
                                  Rat(0), Rat(0), Rat(0)>>)
    ELSE track

\* the body of the loop over directory.macros for one macro
ExtractMacro(track, macro) ==
    IF "client_data" \in DOMAIN macro
    THEN IF Exposes(macro) THEN Append(track, PoseOf(macro))
         ELSE track   \* AttributeError, caught by the bare except: continue
    ELSE track

\* tracks and source rates of a direct call of resample_positions
PoseSet == {PoseOf(mc) : mc \in FullMacros}
SourceFpsSet == {Rat(30), Rat(45), Rat(60)}

----------------------------------------------------------------------------
(* interpolate_angles *)

\* ShiftFrom with the slice taken one sample late: angles[i+1:] += delta
ShiftFrom_After(angles, i, delta) ==
    [k \in 1..Len(angles) |-> IF k > i THEN RAdd(angles[k], Rat(delta)) ELSE angles[k]]

\* angles[i:] += delta
ShiftFrom(angles, i, delta) ==
    [k \in 1..Len(angles) |-> IF k >= i THEN RAdd(angles[k], Rat(delta)) ELSE angles[k]]

\* UnwrapStep with the two corrections exchanged
UnwrapStep_Reversed(angles, i) ==
    LET diff == RSub(angles[i], angles[i - 1])
    IN  IF RLess(Rat(180), RAbs(diff))
        THEN IF RLess(Rat(0), diff)
             THEN ShiftFrom(angles, i, 360)
             ELSE ShiftFrom(angles, i, -360)
        ELSE angles

\* one iteration of the loop over range(1, len(angles)); i is 1-based here
UnwrapStep(angles, i) ==
    LET diff == RSub(angles[i], angles[i - 1])
    IN  IF RLess(Rat(180), RAbs(diff))
        THEN IF RLess(Rat(0), diff)
             THEN ShiftFrom(angles, i, -360)
             ELSE ShiftFrom(angles, i, 360)
        ELSE angles

RECURSIVE UnwrapLoop(_, _)
UnwrapLoop(angles, i) ==
    IF i > Len(angles) THEN angles
    ELSE UnwrapLoop(UnwrapStep(angles, i), i + 1)

\* the array after the loop
Unwrap(angles) == UnwrapLoop(angles, 2)

\* np.interp at one point x, over sample points xp (increasing) with values fp
Interp(x, xp, fp) ==
    LET n == Len(xp)
    IN  IF RLeq(xp[n], x) THEN fp[n]
        ELSE IF RLess(x, xp[1]) THEN fp[1]
        ELSE LET j == CHOOSE j \in 1..(n - 1) : RLeq(xp[j], x) /\ RLess(x, xp[j + 1])
                 slope == RDiv(RSub(fp[j + 1], fp[j]), RSub(xp[j + 1], xp[j]))
             IN  RAdd(RMul(slope, RSub(x, xp[j])), fp[j])

\* np.interp(target_times, times, values)
InterpAll(xs, xp, fp) == [k \in 1..Len(xs) |-> Interp(xs[k], xp, fp)]

\* WrapModulo with the modulo left out
WrapModulo_None(v) == v

\* the result % 360
WrapModulo(v) == RMod(v, 360)

interpolate_angles(times, angles, targets) ==
    LET unwrapped == Unwrap(angles)
        lin == InterpAll(targets, times, unwrapped)
    IN  [k \in 1..Len(targets) |-> WrapModulo(lin[k])]

----------------------------------------------------------------------------
(* resample_positions: its arrays *)

\* np.arange(len(positions)) / source_fps
OriginalTimes(n, sfps) == [k \in 1..n |-> RDiv(Rat(k - 1), sfps)]

\* Arange with the end point included: 0, step, ... up to stop
Arange_Closed(stop, step) ==
    LET len == RFloor(RDiv(stop, step)) + 1
    IN  [k \in 1..(IF len > 0 THEN len ELSE 0) |-> RMul(Rat(k - 1), step)]

\* Arange with floor(stop / step) values
Arange_Floor(stop, step) ==
    LET len == RFloor(RDiv(stop, step))
    IN  [k \in 1..(IF len > 0 THEN len ELSE 0) |-> RMul(Rat(k - 1), step)]

\* np.arange(0, stop, step): ceil(stop / step) values 0, step, 2 step, ...
Arange(stop, step) ==
    LET len == RCeil(RDiv(stop, step))
    IN  [k \in 1..(IF len > 0 THEN len ELSE 0) |-> RMul(Rat(k - 1), step)]

TargetTimes(last, tfps) == Arange(last, RDiv(Rat(1), Rat(tfps)))

\* np.zeros((rows, 6))
Zeros(rows) == [k \in 1..rows |-> [c \in 1..6 |-> Rat(0)]]

\* resampled[:, c] = col
SetColumn(array, c, col) ==
    [k \in 1..Len(array) |-> [array[k] EXCEPT ![c] = col[k]]]

\* the column the loops write for channel c (1..3 positions, 4..6 angles)
ResampleChannel(c, times, array, targets) ==
    IF c <= 3 THEN InterpAll(targets, times, Column(array, c))
    ELSE interpolate_angles(times, Column(array, c), targets)

----------------------------------------------------------------------------
(* The BVH text *)

\* the ten lines of the skeleton block, in order
HeaderLines ==
    << "HIERARCHY", "ROOT MdtCam", "{", "\tOFFSET 0.00 0.00 0.00",
       "\tCHANNELS 6 Xposition Yposition Zposition Zrotation Xrotation Yrotation",
       "\tEnd Site", "\t{", "\t\tOFFSET 0.00 0.00 -1.00", "\t}", "}" >>

Million == 1000000

\* the nearest integer to a rational, ties to the even one
RoundHalfEven(a) ==
    LET fl == RFloor(a)
        twice == RSub(RMul(Rat(2), a), Rat(2 * fl))   \* 2 * (a - floor(a))
    IN  IF RLess(twice, Rat(1)) THEN fl
        ELSE IF RLess(Rat(1), twice) THEN fl + 1
        ELSE IF fl % 2 = 0 THEN fl ELSE fl + 1

\* Format6 with the digits after the sixth cut off
Format6_Truncate(v) == RFloor(RMul(v, Rat(Million)))

\* f"{v:.6f}": the decimal text with six digits, held as its count of millionths
Format6(v) == RoundHalfEven(RMul(v, Rat(Million)))

\* the number a reader gets back from such a text
Parse6(text) == Norm(text, Million)

TextLine(s) == [field |-> "text", value |-> s]
FramesLine(n) == [field |-> "Frames", value |-> n]
FrameTimeLine(t) == [field |-> "Frame Time", value |-> Format6(t)]
PoseLine(pose) == [field |-> "pose", value |-> [c \in 1..6 |-> Format6(pose[c])]]

----------------------------------------------------------------------------
(* The state *)

VARIABLES
    pc,                 \* the position of the run
    caller,             \* who called resample_positions: "analyze" or "direct"
    error,              \* the exception that ended the run, "" when none
    target_fps,         \* args.fps, the parameter target_fps
    demo,               \* demo.directories as parse_demo returned them
    d,                  \* the index of the loop over demo.directories
    m,                  \* the index of the loop over directory.macros
    positions,          \* the list positions
    source_frame_time,  \* source_frame_time
    source_fps,         \* source_fps
    pos_array,          \* resample_positions: pos_array
    original_times,     \* resample_positions: original_times
    target_times,       \* resample_positions: target_times
    resampled,          \* resample_positions: resampled
    ch,                 \* resample_positions: the channel the loops are at
    ret,                \* the value resample_positions returned
    out_state,          \* the output file: "untouched", "open" or "closed"
    out                 \* the lines written to the output file

vars == << pc, caller, error, target_fps, demo, d, m, positions,
           source_frame_time, source_fps, pos_array, original_times,
           target_times, resampled, ch, ret, out_state, out >>

analyzeVars == << demo, d, m, source_frame_time >>
resampleVars == << pos_array, original_times, target_times, resampled, ch, ret >>
fileVars == << out_state, out >>

Init ==
    /\ pc = "start"
    /\ caller = ""
    /\ error = ""
    /\ target_fps = 30
    /\ demo = << >>
    /\ d = 1
    /\ m = 1
    /\ positions = << >>
    /\ source_frame_time = RDiv(Rat(1), Rat(60))
    /\ source_fps = Rat(60)
    /\ pos_array = << >>
    /\ original_times = << >>
    /\ target_times = << >>
    /\ resampled = << >>
    /\ ch = 1
    /\ ret = << >>
    /\ out_state = "untouched"
    /\ out = << >>

----------------------------------------------------------------------------
(* main *)

\* len(sys.argv) == 1: print the help and return
Main_NoArguments ==
    /\ pc = "start"
    /\ pc' = "help"
    /\ UNCHANGED << caller, error, target_fps, positions, source_fps,
                    analyzeVars, resampleVars, fileVars >>

\* not os.path.exists(args.demo_file): print the error and return
Main_FileNotFound ==
    /\ pc = "start"
    /\ pc' = "not_found"
    /\ UNCHANGED << caller, error, target_fps, positions, source_fps,
                    analyzeVars, resampleVars, fileVars >>

\* Main_Analyze with the output file opened at the top of analyze_demo
Main_Analyze_OpensOutput ==
    /\ pc = "start"
    /\ \E fps \in TargetFpsSet : target_fps' = fps
    /\ caller' = "analyze"
    /\ pc' = "parse"
    /\ out_state' = "open"
    /\ out' = << >>
    /\ UNCHANGED << error, positions, source_fps, analyzeVars, resampleVars >>

\* analyze_demo(args.demo_file, args.fps) is called
Main_Analyze ==
    /\ pc = "start"
    /\ \E fps \in TargetFpsSet : target_fps' = fps
    /\ caller' = "analyze"
    /\ pc' = "parse"
    /\ UNCHANGED << error, positions, source_fps, analyzeVars, resampleVars, fileVars >>

----------------------------------------------------------------------------
(* analyze_demo: parsing and extraction *)

\* open(demo_file, "rb") or parse_demo raises
Parse_Raises ==
    /\ pc = "parse"
    /\ pc' = "raised"
    /\ error' = "ParseError"
    /\ UNCHANGED << caller, target_fps, positions, source_fps,
                    analyzeVars, resampleVars, fileVars >>

\* parse_demo returns; positions = [], source_frame_time = 1.0 / 60
Parse_Returns ==
    /\ pc = "parse"
    /\ \E dm \in DemoSet : demo' = dm
    /\ positions' = << >>
    /\ source_frame_time' = RDiv(Rat(1), Rat(60))
    /\ d' = 1
    /\ m' = 1
    /\ pc' = "directories"
    /\ UNCHANGED << caller, error, target_fps, source_fps, resampleVars, fileVars >>

\* the head of the loop over demo.directories
NextDirectory ==
    /\ pc = "directories"
    /\ IF d > Len(demo)
       THEN /\ pc' = "fps"
            /\ UNCHANGED << d, m, source_frame_time >>
       ELSE IF demo[d].name = "Playback"
       THEN /\ source_frame_time' =
                  IF demo[d].frames > 0
                  THEN RDiv(Rat(demo[d].time), Rat(demo[d].frames))
                  ELSE source_frame_time
            /\ m' = 1
            /\ pc' = "macros"
            /\ d' = d
       ELSE /\ d' = d + 1
            /\ UNCHANGED << pc, m, source_frame_time >>
    /\ UNCHANGED << caller, error, target_fps, demo, positions, source_fps,
                    resampleVars, fileVars >>

\* one iteration of the loop over directory.macros, or its end
NextMacro ==
    /\ pc = "macros"
    /\ IF m > Len(demo[d].macros)
       THEN /\ d' = d + 1
            /\ pc' = "directories"
            /\ UNCHANGED << m, positions >>
       ELSE /\ positions' = ExtractMacro(positions, demo[d].macros[m])
            /\ m' = m + 1
            /\ UNCHANGED << pc, d >>
    /\ UNCHANGED << caller, error, target_fps, demo, source_frame_time, source_fps,
                    resampleVars, fileVars >>

\* source_fps = 1.0 / source_frame_time, and the test source_fps != target_fps
ComputeSourceFps ==
    /\ pc = "fps"
    /\ IF source_frame_time[1] = 0
       THEN /\ pc' = "raised"
            /\ error' = "ZeroDivisionError"
            /\ UNCHANGED source_fps
       ELSE /\ source_fps' = RDiv(Rat(1), source_frame_time)
            /\ pc' = IF source_fps' # Rat(target_fps) THEN "resample" ELSE "open_output"
            /\ UNCHANGED error
    /\ UNCHANGED << caller, target_fps, positions, analyzeVars, resampleVars, fileVars >>

----------------------------------------------------------------------------
(* resample_positions *)

\* resample_positions(positions, source_fps, target_fps) called by importing code
Call_resample_positions ==
    /\ pc = "start"
    /\ \E track \in SeqsUpTo(PoseSet, MaxTrack) : positions' = track
    /\ \E sfps \in SourceFpsSet : source_fps' = sfps
    /\ \E fps \in TargetFpsSet : target_fps' = fps
    /\ caller' = "direct"
    /\ pc' = "resample"
    /\ UNCHANGED << error, analyzeVars, resampleVars, fileVars >>

\* FastPath with the rates compared by identity (is), never equal
FastPath_ByIdentity(sfps, tfps) == FALSE

\* if source_fps == target_fps
FastPath(sfps, tfps) == sfps = Rat(tfps)

\* where the call returns to
AfterReturn == IF caller = "analyze" THEN "open_output" ELSE "returned"

\* the fast path, or the arrays pos_array, original_times, target_times, resampled
Resample_Enter ==
    /\ pc = "resample"
    /\ IF FastPath(source_fps, target_fps)
       THEN /\ ret' = positions
            /\ pc' = AfterReturn
            /\ UNCHANGED << error, pos_array, original_times, target_times, resampled, ch >>
       ELSE /\ pos_array' = positions
            /\ original_times' = OriginalTimes(Len(positions), source_fps)
            /\ IF Len(positions) = 0
               THEN \* original_times[-1] of an empty array
                    /\ pc' = "raised"
                    /\ error' = "IndexError"
                    /\ UNCHANGED << target_times, resampled, ch, ret >>
               ELSE /\ target_times' =
                          TargetTimes(original_times'[Len(positions)], target_fps)
                    /\ resampled' = Zeros(Len(target_times'))
                    /\ ch' = 1
                    /\ pc' = "channels"
                    /\ UNCHANGED << error, ret >>
    /\ UNCHANGED << caller, target_fps, positions, source_fps, analyzeVars, fileVars >>

\* one iteration of the loops over range(3) and range(3, 6)
Resample_Channel ==
    /\ pc = "channels"
    /\ ch <= 6
    /\ resampled' = SetColumn(resampled, ch,
                        ResampleChannel(ch, original_times, pos_array, target_times))
    /\ ch' = ch + 1
    /\ UNCHANGED << pc, caller, error, target_fps, positions, source_fps, analyzeVars,
                    pos_array, original_times, target_times, ret, fileVars >>

\* return resampled.tolist(); analyze_demo assigns it to positions
Resample_Return ==
    /\ pc = "channels"
    /\ ch > 6
    /\ ret' = resampled
    /\ positions' = IF caller = "analyze" THEN resampled ELSE positions
    /\ pc' = AfterReturn
    /\ UNCHANGED << caller, error, target_fps, source_fps, analyzeVars,
                    pos_array, original_times, target_times, resampled, ch, fileVars >>

----------------------------------------------------------------------------
(* analyze_demo: the output file *)

\* with open(output_file, "w") as out: the file is created or truncated
OpenOutput ==
    /\ pc = "open_output"
    /\ out_state' = "open"
    /\ out' = << >>
    /\ pc' = "write_header"
    /\ UNCHANGED << caller, error, target_fps, positions, source_fps,
                    analyzeVars, resampleVars >>

\* the skeleton block
WriteHeader ==
    /\ pc = "write_header"
    /\ out' = out \o [k \in 1..Len(HeaderLines) |-> TextLine(HeaderLines[k])]
    /\ pc' = "write_motion"
    /\ UNCHANGED << caller, error, target_fps, positions, source_fps,
                    analyzeVars, resampleVars, out_state >>

\* MOTION, Frames: and Frame Time:, with target_frame_time = 1.0 / target_fps
WriteMotion ==
    /\ pc = "write_motion"
    /\ out' = out \o << TextLine("MOTION"),
                        FramesLine(Len(positions)),
                        FrameTimeLine(RDiv(Rat(1), Rat(target_fps))) >>
    /\ pc' = "write_frames"
    /\ UNCHANGED << caller, error, target_fps, positions, source_fps,
                    analyzeVars, resampleVars, out_state >>

\* the poses the file holds so far
PoseLinesOf(lines) == SelectSeq(lines, LAMBDA l : l.field = "pose")

\* one iteration of the loop over positions
WriteFrame ==
    /\ pc = "write_frames"
    /\ Len(PoseLinesOf(out)) < Len(positions)
    /\ out' = Append(out, PoseLine(positions[Len(PoseLinesOf(out)) + 1]))
    /\ UNCHANGED << pc, caller, error, target_fps, positions, source_fps,
                    analyzeVars, resampleVars, out_state >>

\* the end of the with block, and the closing prints
CloseOutput ==
    /\ pc = "write_frames"
    /\ Len(PoseLinesOf(out)) = Len(positions)
    /\ out_state' = "closed"
    /\ pc' = "done"
    /\ UNCHANGED << caller, error, target_fps, positions, source_fps,
                    analyzeVars, resampleVars, out >>

----------------------------------------------------------------------------
(* The specification *)

Next ==
    \/ Main_NoArguments
    \/ Main_FileNotFound
    \/ Main_Analyze
    \/ Parse_Raises
    \/ Parse_Returns
    \/ NextDirectory
    \/ NextMacro
    \/ ComputeSourceFps
    \/ Call_resample_positions
    \/ Resample_Enter
    \/ Resample_Channel
    \/ Resample_Return
    \/ OpenOutput
    \/ WriteHeader
    \/ WriteMotion
    \/ WriteFrame
    \/ CloseOutput

Spec == Init /\ [][Next]_vars

----------------------------------------------------------------------------
(* Properties.  A conjunct guarded by pc = "start" is a fact of the        *)
(* operators alone, on inputs beyond the bounds of the runs; the guard has *)
(* it evaluated once, in the initial state.                                *)

\* the run is past the place resample_positions returns to
PastReturn ==
    pc \in {"returned", "open_output", "write_header", "write_motion",
            "write_frames", "done"}

\* resample_positions was called and has returned ret
Returned == PastReturn /\ (caller = "direct" \/ source_fps # Rat(target_fps))

\* it returned from its resampling branch, whose source track is pos_array
Resampled == Returned /\ source_fps # Rat(target_fps)

\* the last source time (n - 1) / sourceFps of a track of n poses
LastSourceTime(n, sfps) == RDiv(Rat(n - 1), sfps)

InUnitCircle(v) == RLeq(Rat(0), v) /\ RLess(v, Rat(360))

\* the spec's end-to-end scenario: 120 poses at 60 fps, resampled to 30 fps
ScenarioTargetTimes == TargetTimes(OriginalTimes(120, Rat(60))[120], 30)

\* C1 (identity): resample_positions(track, fps, fps) returns the track as
\* given: same length, same poses in the same order, every value unchanged.
C1_Identity ==
    (Returned /\ caller = "direct" /\ source_fps = Rat(target_fps))
        => ret = positions

\* a three-pose track with a negative angle came back from the fast path
C1_Witness ==
    /\ pc = "returned"
    /\ source_fps = Rat(target_fps)
    /\ Len(positions) = 3
    /\ \E k \in 1..3 : RLess(ret[k][5], Rat(0))

C5_FailsBelowTwoPoses ==
    Resampled => Len(pos_array) >= 2

\* the distance of two angles around the circle
CircDist(a, b) ==
    LET x == RMod(RSub(a, b), 360)
        y == RMod(RSub(b, a), 360)
    IN  IF RLess(x, y) THEN x ELSE y

\* the angle o lies on a shortest arc from a to b
OnShortArc(a, o, b) == RAdd(CircDist(a, o), CircDist(o, b)) = CircDist(a, b)

RawInRange(raw) == \A k \in 1..Len(raw) : InUnitCircle(raw[k])

\* C6 (short arc): for a rotation channel whose raw values all lie in
\* [0, 360), consecutive unwrapped samples differ by at most 180, and the
\* output at a target time between two consecutive source samples lies on
\* the shorter arc between them; [350, 10] has the midpoint 0.
C6_ShortArc ==
    /\ \A c \in 4..6 :
          LET raw == Column(pos_array, c)
              u == Unwrap(raw)
          IN  RawInRange(raw)
                 => \A i \in 1..(Len(raw) - 1) :
                       RLeq(RAbs(RSub(u[i + 1], u[i])), Rat(180))
    /\ Resampled
         => \A c \in 4..6 :
               LET raw == Column(pos_array, c)
               IN  RawInRange(raw)
                     => \A k \in 1..Len(ret) : \A j \in 1..(Len(raw) - 1) :
                           (/\ RLeq(original_times[j], target_times[k])
                            /\ RLeq(target_times[k], original_times[j + 1]))
                              => OnShortArc(raw[j], ret[k][c], raw[j + 1])
    /\ pc = "start"
         => interpolate_angles(<<Rat(0), Rat(1)>>, <<Rat(350), Rat(10)>>, <<Norm(1, 2)>>)
               = <<Rat(0)>>

\* a resampling put a target time strictly between two yaw samples that
\* are more than 180 apart
C6_Witness ==
    /\ Resampled
    /\ \E j \in 1..(Len(pos_array) - 1) : \E k \in 1..Len(ret) :
          /\ RLess(Rat(180), RAbs(RSub(pos_array[j + 1][6], pos_array[j][6])))
          /\ RLess(original_times[j], target_times[k])
          /\ RLess(target_times[k], original_times[j + 1])

\* whether a frame record exposes both position and rotation data
HasPose(macro) ==
    /\ "client_data" \in DOMAIN macro
    /\ "position" \in DOMAIN macro.client_data
    /\ "rotation" \in DOMAIN macro.client_data

\* one pose for each record that has one, in the records' order
ExpectedTrack(macros) ==
    LET full == SelectSeq(macros, HasPose)
    IN  [k \in 1..Len(full) |-> PoseOf(full[k])]

\* the loop over directory.macros from macro i on
RECURSIVE ExtractFrom(_, _, _)
ExtractFrom(track, macros, i) ==
    IF i > Len(macros) THEN track
    ELSE ExtractFrom(ExtractMacro(track, macros[i]), macros, i + 1)

\* ten records of which the third, sixth and ninth lack rotation data
TenRecords ==
    [k \in 1..10 |->
        IF k % 3 = 0
        THEN [client_data |-> [position |-> [x |-> k, y |-> k, z |-> k]]]
        ELSE [client_data |-> [position |-> [x |-> k, y |-> k, z |-> k],
                               rotation |-> [roll |-> k, pitch |-> k, yaw |-> k]]]]

TenRecordsTrack == ExtractFrom(<< >>, TenRecords, 1)

\* C7 (best-effort extraction): extraction never raises, and the extracted
\* track holds exactly one pose for each record of the Playback directory
\* that exposes both position and rotation, in the records' order; ten
\* records of which three lack rotation give seven poses.
C7_BestEffort ==
    /\ pc = "macros"
         => positions = ExpectedTrack(SubSeq(demo[d].macros, 1, m - 1))
    /\ (caller = "analyze" /\ pc \in {"fps", "resample", "channels"})
         => positions = ExpectedTrack(demo[Len(demo)].macros)
    /\ pc \in {"directories", "macros", "fps"} => error = ""
    /\ pc = "start"
         => (TenRecordsTrack = ExpectedTrack(TenRecords) /\ Len(TenRecordsTrack) = 7)

\* the extraction of three records ended with one pose, after a LOADING
\* directory that was passed over
C7_Witness ==
    /\ pc = "fps"
    /\ Len(demo) = 2
    /\ Len(demo[2].macros) = 3
    /\ Len(positions) = 1
    /\ \E k \in 1..3 :
          /\ "client_data" \in DOMAIN demo[2].macros[k]
          /\ "rotation" \notin DOMAIN demo[2].macros[k].client_data

\* C8 (output-file ordering): the output file is opened only after the
\* input was found, parsed, extracted and (when needed) resampled; a run
\* that ends with the missing-input error or with a failure raised during
\* parsing, extraction or resampling never creates or writes it.
C8_OutputAfterSuccess ==
    /\ out_state # "untouched"
         => /\ pc \in {"write_header", "write_motion", "write_frames", "done"}
            /\ caller = "analyze"
            /\ error = ""
            /\ d > Len(demo)
            /\ source_fps = Rat(target_fps) \/ ret = positions
    /\ pc \in {"not_found", "raised"} => (out_state = "untouched" /\ out = << >>)

\* a run ended with the failure resampling raised
C8_Witness == pc = "raised" /\ error = "IndexError" /\ caller = "analyze"

\* the text holds the decimal number nearest to v, six digits after the point
Nearest(text, v) ==
    RLeq(RAbs(RSub(Rat(2 * text), RMul(Rat(2 * Million), v))), Rat(1))

\* C9 (serializer consistency): the Frames: field equals len(track) and the
\* number of pose lines after the Frame Time: line; the pose lines are in
\* track order with the channels in pose order; the Frame Time: field is
\* 1/targetFps to six decimals; reading the field back and writing it again
\* gives the same field.
C9_SerializerConsistent ==
    pc = "done"
      => LET h == Len(HeaderLines)
             frames == out[h + 2]
             ftime == out[h + 3]
             n == Len(out) - (h + 3)
         IN  /\ \A k \in 1..h : out[k] = TextLine(HeaderLines[k])
             /\ out[h + 1] = TextLine("MOTION")
             /\ frames.field = "Frames"
             /\ frames.value = Len(positions)
             /\ frames.value = n
             /\ ftime.field = "Frame Time"
             /\ Nearest(ftime.value, RDiv(Rat(1), Rat(target_fps)))
             /\ Format6(Parse6(ftime.value)) = ftime.value
             /\ \A k \in 1..n :
                   /\ out[h + 3 + k].field = "pose"
                   /\ \A c \in 1..6 : Nearest(out[h + 3 + k].value[c], positions[k][c])

\* a resampled track of two poses or more was written at 60 fps
C9_Witness ==
    /\ pc = "done"
    /\ target_fps = 60
    /\ source_fps # Rat(target_fps)
    /\ Len(positions) >= 2

\* the accumulated wrap offset of the scan at sample i
RECURSIVE ScanOffset(_, _)
ScanOffset(raw, i) ==
    IF i = 1 THEN 0
    ELSE LET prev == ScanOffset(raw, i - 1)
             jump == RSub(raw[i], raw[i - 1])
         IN  IF RLess(Rat(180), jump) THEN prev - 360
             ELSE IF RLess(jump, Rat(-180)) THEN prev + 360
             ELSE prev

ScanUnwrap(raw) == [i \in 1..Len(raw) |-> RAdd(raw[i], Rat(ScanOffset(raw, i)))]

\* C10 (unwrap as a scan): the in-place loop of interpolate_angles gives the
\* sequence of the state-carrying scan over the raw values, and each
\* unwrapped value is congruent to its raw value modulo 360.
C10_UnwrapIsScan ==
    \A c \in 4..6 :
        LET raw == Column(pos_array, c)
            u == Unwrap(raw)
        IN  /\ u = ScanUnwrap(raw)
            /\ \A i \in 1..Len(raw) : RMod(u[i], 360) = RMod(raw[i], 360)

\* a channel of a resampled track took two corrections
C10_Witness ==
    /\ Resampled
    /\ \E c \in 4..6 :
          LET raw == Column(pos_array, c)
          IN  /\ Len(raw) >= 3
              /\ \E i \in 2..(Len(raw) - 1) :
                    /\ ScanOffset(raw, i) # ScanOffset(raw, i - 1)
                    /\ ScanOffset(raw, i + 1) # ScanOffset(raw, i)

============================================================================
